---- MODULE Spec2Model ----
(***************************************************************************)
(* loris/resolver.py: the three resolvers (SimpleFSResolver,               *)
(* WebBPLResolver, SourceImageCachingResolver) run by concurrent workers   *)
(* over one filesystem.  Strings are sequences of one-character strings;   *)
(* the filesystem maps a normalised absolute path (a sequence of           *)
(* component names) to a directory or to a file with its chunks.           *)
(***************************************************************************)
EXTENDS Integers, Sequences, FiniteSets, TLC

\* ------------------------------------------------------------- bounds
NumThreads == 2
MaxCalls == 2
FileLen == 2

Threads == 1..NumThreads

\* ------------------------------------------------------------ strings
SLASH == "/"
DOT == "."
PCT == "%"
Empty == << >>

\* str.rfind(c) + 1: the 1-based index of the last c in s, 0 when absent
RFind(s, c) ==
    LET hits == {k \in 1..Len(s) : s[k] = c}
    IN  IF hits = {} THEN 0 ELSE CHOOSE k \in hits : \A j \in hits : j <= k

\* str.find(c) + 1
Find(s, c) ==
    LET hits == {k \in 1..Len(s) : s[k] = c}
    IN  IF hits = {} THEN 0 ELSE CHOOSE k \in hits : \A j \in hits : k <= j

\* s[k:] for a 0-based k
From(s, k) == SubSeq(s, k + 1, Len(s))

\* s[:k]
Upto(s, k) == SubSeq(s, 1, k)

\* s.rstrip('/')
RECURSIVE RStrip(_)
RStrip(s) ==
    IF s # Empty /\ s[Len(s)] = SLASH THEN RStrip(Upto(s, Len(s) - 1)) ELSE s

AllSlashes(s) == \A k \in 1..Len(s) : s[k] = SLASH

\* urllib's _hextochr, restricted to the escapes of the model's alphabet
HexToChr(a, b) ==
    CASE a = "2" /\ b = "F" -> SLASH
      [] a = "2" /\ b = "5" -> PCT
      [] a = "2" /\ b = "E" -> DOT
      [] OTHER -> ""

\* urllib.unquote: every %XX with a known XX is replaced, anything else kept
RECURSIVE unquote(_)
unquote(s) ==
    IF s = Empty THEN Empty
    ELSE IF s[1] = PCT /\ Len(s) >= 3 /\ HexToChr(s[2], s[3]) # ""
         THEN <<HexToChr(s[2], s[3])>> \o unquote(From(s, 3))
         ELSE <<s[1]>> \o unquote(Tail(s))

\* posixpath.join(a, b)
join(a, b) ==
    IF b # Empty /\ b[1] = SLASH THEN b
    ELSE IF a = Empty \/ a[Len(a)] = SLASH THEN a \o b
    ELSE a \o <<SLASH>> \o b

\* posixpath.split(p) = (head, tail)
SplitHead(p) ==
    LET head == Upto(p, RFind(p, SLASH))
    IN  IF head # Empty /\ ~AllSlashes(head) THEN RStrip(head) ELSE head

SplitTail(p) == From(p, RFind(p, SLASH))

dirname(p) == SplitHead(p)

basename(p) == SplitTail(p)

\* p.split('/'): the components of a path string, empty ones included
RECURSIVE Components(_)
Components(p) ==
    LET k == Find(p, SLASH)
    IN  IF k = 0 THEN <<p>>
        ELSE <<Upto(p, k - 1)>> \o Components(From(p, k))

\* --------------------------------------------------------- filesystem
Dir == [kind |-> "dir", data |-> Empty]
File(d) == [kind |-> "file", data |-> d]
NoEnt == [ok |-> FALSE, at |-> << >>]
Parent(at) == IF at = << >> THEN at ELSE Upto(at, Len(at) - 1)

\* the kernel's path walk: every prefix must be a directory, "" and "." stay,
\* ".." goes up, a name must be an entry of the directory reached so far
RECURSIVE WalkFrom(_, _, _)
WalkFrom(f, comps, cur) ==
    IF comps = << >> THEN [ok |-> TRUE, at |-> cur]
    ELSE IF f[cur].kind # "dir" THEN NoEnt
    ELSE LET h == Head(comps)
         IN  IF h = Empty \/ h = <<DOT>> THEN WalkFrom(f, Tail(comps), cur)
             ELSE IF h = <<DOT, DOT>> THEN WalkFrom(f, Tail(comps), Parent(cur))
             ELSE IF Append(cur, h) \in DOMAIN f
                  THEN WalkFrom(f, Tail(comps), Append(cur, h))
                  ELSE NoEnt

\* stat(p)
Walk(f, p) == IF p = Empty THEN NoEnt ELSE WalkFrom(f, Components(p), << >>)

\* os.path.exists(p)
exists(f, p) == Walk(f, p).ok

\* os.path.isdir(p)
isdir(f, p) == Walk(f, p).ok /\ f[Walk(f, p).at].kind = "dir"

\* the entry a creating call (mkdir, open for writing) would make for p:
\* the walk of everything but the last component must end in a directory
\* and the last component must be a name
NewEntry(f, p) ==
    LET comps == Components(p)
        last == comps[Len(comps)]
        par == WalkFrom(f, Upto(comps, Len(comps) - 1), << >>)
    IN  IF p = Empty \/ last = Empty \/ last = <<DOT>> \/ last = <<DOT, DOT>>
           \/ ~par.ok
        THEN NoEnt
        ELSE IF f[par.at].kind # "dir" THEN NoEnt
        ELSE [ok |-> TRUE, at |-> Append(par.at, last)]

Extend(f, at, e) == [q \in DOMAIN f \cup {at} |-> IF q = at THEN e ELSE f[q]]

\* os.mkdir(p): fails (OSError) when p exists or its parent is no directory
mkdir(f, p) ==
    IF exists(f, p) \/ ~NewEntry(f, p).ok
    THEN [ok |-> FALSE, eexist |-> exists(f, p), fs |-> f]
    ELSE [ok |-> TRUE, eexist |-> FALSE, fs |-> Extend(f, NewEntry(f, p).at, Dir)]

\* os.makedirs(name) of Python 2: creates the missing ancestors, tolerating
\* EEXIST for them only, then mkdir(name), whose failure is raised
RECURSIVE makedirs(_, _)
makedirs(f, name) ==
    LET tail0 == SplitTail(name)
        head == IF tail0 = Empty THEN SplitHead(SplitHead(name)) ELSE SplitHead(name)
        tail == IF tail0 = Empty THEN SplitTail(SplitHead(name)) ELSE tail0
    IN  IF head # Empty /\ tail # Empty /\ ~exists(f, head)
        THEN LET up == makedirs(f, head)
             IN  IF ~up.ok /\ ~up.eexist THEN up
                 ELSE IF tail = <<DOT>> THEN [up EXCEPT !.ok = TRUE]
                 ELSE mkdir(up.fs, name)
        ELSE mkdir(f, name)

\* open(p, 'wb'): creates the file or truncates it; IOError when p is a
\* directory or its parent is missing
OpenWrite(f, p) ==
    LET w == Walk(f, p)
        n == NewEntry(f, p)
    IN  IF w.ok
        THEN IF f[w.at].kind = "dir" THEN [ok |-> FALSE, at |-> << >>, fs |-> f]
             ELSE [ok |-> TRUE, at |-> w.at, fs |-> [f EXCEPT ![w.at] = File(Empty)]]
        ELSE IF n.ok THEN [ok |-> TRUE, at |-> n.at, fs |-> Extend(f, n.at, File(Empty))]
        ELSE [ok |-> FALSE, at |-> << >>, fs |-> f]

\* open(p, 'rb'): IOError when p is missing or a directory
OpenRead(f, p) ==
    LET w == Walk(f, p)
    IN  IF w.ok /\ f[w.at].kind = "file" THEN w ELSE NoEnt

\* write(chunk) at the descriptor's own offset off: a hole is left when the
\* file was truncated below off by another writer
WriteAt(d, off, chunk) ==
    [k \in 1..(IF Len(d) > off + 1 THEN Len(d) ELSE off + 1) |->
        IF k = off + 1 THEN chunk ELSE IF k <= Len(d) THEN d[k] ELSE 0]

\* ------------------------------------------------------ configuration
Resolvers == {"SimpleFSResolver", "WebBPLResolver", "SourceImageCachingResolver"}

\* config['cache_root'], config['source_root'] / config['src_img_root']
CacheDir == <<SLASH, "c">>
SourceDir == <<SLASH, "o">>
\* the repository's address prefix, config['source_root'] of WebBPLResolver
RepositoryUrl == <<"h", ":">>
AccessMaster == <<SLASH, "m">>

\* the identifiers callers supply
Idents ==
    { <<"a", DOT, "t">>,
      <<"d", PCT, "2", "F", "a", DOT, "t">>,
      <<"d", SLASH, "b">>,
      <<"d">>,
      <<"e", SLASH, PCT, "2", "5", "2", "E", "a">>,
      <<DOT, DOT, SLASH, "o", SLASH, "a", DOT, "t">>,
      <<SLASH, "o", SLASH, "a", DOT, "t">> }

\* the bytes of every source image, in chunks of one copy buffer
Content == [k \in 1..FileLen |-> k]

\* the body a repository answers with for an object it does not hold
ErrorBody == <<-1>>

\* the objects the repository holds, by canonical identifier
Repository == { <<"a", DOT, "t">>, <<"d", SLASH, "a", DOT, "t">>, <<"d", SLASH, "b">> }

\* the tree before any request: both roots, and the source images
InitFs ==
    LET c == <<"c">>
        o == <<"o">>
        d == <<"d">>
    IN  (<< >> :> Dir) @@ (<<c>> :> Dir) @@ (<<o>> :> Dir) @@ (<<o, d>> :> Dir)
        @@ (<<o, <<"a", DOT, "t">>>> :> File(Content))
        @@ (<<o, d, <<"a", DOT, "t">>>> :> File(Content))
        @@ (<<o, d, <<"b">>>> :> File(Content))

VARIABLES
    resolver,   \* the class the deployment instantiates
    fs,         \* the filesystem
    pc,         \* per worker: where it is in resolve()
    ident,      \* per worker: the raw identifier of its current or last call
    fd,         \* per worker: the open source and destination of its copy
    ret,        \* per worker: what its last call returned or raised
    warm,       \* per worker: the result a finished resolve() of the same
                \* identifier had returned before this call began, if any
    wrote,      \* per worker: its current or last call changed the filesystem
    fetches,    \* per canonical identifier: copy()/urlretrieve() calls so far
    resolved,   \* per raw identifier: the last (path, format) resolve() returned
    failed,     \* the canonical identifiers for which a resolve() has raised
    calls       \* calls begun so far

vars == <<resolver, fs, pc, ident, fd, ret, warm, wrote, fetches, resolved, failed, calls>>

\* ----------------------------------------------------------- results
None == [op |-> "none", status |-> "none", exc |-> "", code |-> 0,
         path |-> Empty, format |-> Empty, value |-> FALSE]
Running == [None EXCEPT !.op = "resolve"]
Returned(fp, format) == [None EXCEPT !.op = "resolve", !.status = "ok",
                                     !.path = fp, !.format = format]
Raised(exc, code) == [None EXCEPT !.op = "resolve", !.status = "raise",
                                  !.exc = exc, !.code = code]
Answered(b) == [None EXCEPT !.op = "is_resolvable", !.status = "ok", !.value = b]
NoFd == [src |-> "none", from |-> << >>, to |-> << >>, off |-> 0]

\* self.cache_root, self.source_root
cache_root(r) == IF r = "SimpleFSResolver" THEN SourceDir ELSE CacheDir
source_root(r) == IF r = "WebBPLResolver" THEN RepositoryUrl ELSE SourceDir

\* ------------------------------------------------------ pure helpers
Canonical == {unquote(i) : i \in Idents}

\* SimpleFSResolver._format_from_ident: ident.split('.')[-1]
SimpleFS_format_from_ident(id) == From(id, RFind(id, DOT))

\* WebBPLResolver._format_from_ident
WebBPL_format_from_ident(id) ==
    IF Find(id, DOT) = 0 THEN <<"j", "p", "2">> ELSE From(id, RFind(id, DOT))

\* SourceImageCachingResolver._format_from_ident: ident.split('.')[-1]
SourceImageCaching_format_from_ident(id) == From(id, RFind(id, DOT))

format_from_ident(r, id) ==
    CASE r = "SimpleFSResolver" -> SimpleFS_format_from_ident(id)
      [] r = "WebBPLResolver" -> WebBPL_format_from_ident(id)
      [] OTHER -> SourceImageCaching_format_from_ident(id)

\* local_fp built from the identifier as received, not unquoted
local_fp_raw(r, i) == join(cache_root(r), i)

\* local_fp = join(self.cache_root, unquote(ident))
local_fp(r, i) == join(cache_root(r), unquote(i))

\* the origin: join(source_root, ident), or for WebBPLResolver
\* source_root + ident + '/datastreams/accessMaster/content'
source_fp(r, i) ==
    IF r = "WebBPLResolver" THEN source_root(r) \o unquote(i) \o AccessMaster
    ELSE join(source_root(r), unquote(i))

\* is_resolvable() probing the origin where the code probes the cache
is_resolvable_source(f, r, i) == exists(f, join(SourceDir, unquote(i)))

\* is_resolvable() testing the identifier as received, not unquoted
is_resolvable_raw(f, r, i) == exists(f, join(cache_root(r), i))

\* is_resolvable(ident), the same in the three classes
is_resolvable(f, r, i) == exists(f, join(cache_root(r), unquote(i)))

\* the lookup made on the identifier as received, not unquoted
CacheHit_raw(f, r, i) == exists(f, join(cache_root(r), i))

\* the lookup accepting regular files only: exists and not a directory
CacheHit_isfile(f, r, i) == exists(f, local_fp(r, i)) /\ ~isdir(f, local_fp(r, i))

\* the test that opens resolve(): if exists(local_fp)
CacheHit(f, r, i) == exists(f, local_fp(r, i))

\* ------------------------------------------------------------- state
Init ==
    /\ resolver \in Resolvers
    /\ fs = InitFs
    /\ pc = [t \in Threads |-> "idle"]
    /\ ident = [t \in Threads |-> Empty]
    /\ fd = [t \in Threads |-> NoFd]
    /\ ret = [t \in Threads |-> None]
    /\ warm = [t \in Threads |-> None]
    /\ wrote = [t \in Threads |-> FALSE]
    /\ fetches = [c \in Canonical |-> 0]
    /\ resolved = [i \in Idents |-> None]
    /\ failed = {}
    /\ calls = 0

\* a call begins: the worker takes identifier i
Begin(t, i) ==
    /\ pc[t] = "idle"
    /\ calls < MaxCalls
    /\ calls' = calls + 1
    /\ ident' = [ident EXCEPT ![t] = i]
    /\ warm' = [warm EXCEPT ![t] = resolved[i]]

\* a call ends with result r
Finish(t, i, r) ==
    /\ pc' = [pc EXCEPT ![t] = "idle"]
    /\ fd' = [fd EXCEPT ![t] = NoFd]
    /\ ret' = [ret EXCEPT ![t] = r]
    /\ resolved' = IF r.op = "resolve" /\ r.status = "ok"
                   THEN [resolved EXCEPT ![i] = r] ELSE resolved
    /\ failed' = IF r.status = "raise" THEN failed \cup {unquote(i)} ELSE failed

Invoke(i) == fetches' = [fetches EXCEPT ![unquote(i)] = @ + 1]

\* --------------------------------------------------- is_resolvable()
IsResolvable(t, i) ==
    /\ Begin(t, i)
    /\ Finish(t, i, Answered(is_resolvable(fs, resolver, i)))
    /\ wrote' = [wrote EXCEPT ![t] = FALSE]
    /\ UNCHANGED <<resolver, fs, fetches>>

\* -------------------------------------------- SimpleFSResolver.resolve
\* resolve() testing isfile(fp) where the code tests exists(fp)
SimpleFS_resolve_isfile(f, i) ==
    LET id == unquote(i)
        fp == join(cache_root("SimpleFSResolver"), id)
    IN  IF ~(exists(f, fp) /\ ~isdir(f, fp))
        THEN Raised("ResolverException", 404)
        ELSE Returned(fp, SimpleFS_format_from_ident(id))

\* resolve() making the directory of a file it does not find
SimpleFSResolve_mkdir(t, i) ==
    /\ resolver = "SimpleFSResolver"
    /\ Begin(t, i)
    /\ LET id == unquote(i)
           fp == join(cache_root("SimpleFSResolver"), id)
           m == makedirs(fs, dirname(fp))
       IN  IF exists(fs, fp)
           THEN /\ Finish(t, i, Returned(fp, SimpleFS_format_from_ident(id)))
                /\ fs' = fs
                /\ wrote' = [wrote EXCEPT ![t] = FALSE]
           ELSE /\ Finish(t, i, Raised("ResolverException", 404))
                /\ fs' = m.fs
                /\ wrote' = [wrote EXCEPT ![t] = (m.fs # fs)]
    /\ UNCHANGED <<resolver, fetches>>

\* lines 74-87: what resolve(i) returns or raises on filesystem f
SimpleFS_resolve(f, i) ==
    LET id == unquote(i)
        fp == join(cache_root("SimpleFSResolver"), id)
    IN  IF ~exists(f, fp)
        THEN Raised("ResolverException", 404)
        ELSE Returned(fp, SimpleFS_format_from_ident(id))

SimpleFSResolve(t, i) ==
    /\ resolver = "SimpleFSResolver"
    /\ Begin(t, i)
    /\ Finish(t, i, SimpleFS_resolve(fs, i))
    /\ wrote' = [wrote EXCEPT ![t] = FALSE]
    /\ UNCHANGED <<resolver, fs, fetches>>

\* --------------------------------- SourceImageCachingResolver.resolve
\* lines 186-192: the cache lookup
SourceImageCachingResolve(t, i) ==
    /\ resolver = "SourceImageCachingResolver"
    /\ Begin(t, i)
    /\ IF CacheHit(fs, resolver, i)
       THEN Finish(t, i, Returned(local_fp(resolver, i),
                                  SourceImageCaching_format_from_ident(unquote(i))))
       ELSE /\ pc' = [pc EXCEPT ![t] = "probe"]
            /\ ret' = [ret EXCEPT ![t] = Running]
            /\ UNCHANGED <<fd, resolved, failed>>
    /\ wrote' = [wrote EXCEPT ![t] = FALSE]
    /\ UNCHANGED <<resolver, fs, fetches>>

\* the source check made after makedirs(dirname(local_fp)) instead of before
ProbeSource_late(t) ==
    /\ pc[t] = "probe"
    /\ LET m == makedirs(fs, dirname(local_fp(resolver, ident[t])))
       IN  /\ fs' = m.fs
           /\ wrote' = [wrote EXCEPT ![t] = (m.fs # fs)]
    /\ IF ~exists(fs, source_fp(resolver, ident[t]))
       THEN Finish(t, ident[t], Raised("ResolverException", 404))
       ELSE /\ pc' = [pc EXCEPT ![t] = "copy"]
            /\ UNCHANGED <<fd, ret, resolved, failed>>
    /\ UNCHANGED <<resolver, ident, warm, fetches, calls>>

\* lines 194-200: if not exists(fp): raise ResolverException(404, ...)
ProbeSource(t) ==
    /\ pc[t] = "probe"
    /\ IF ~exists(fs, source_fp(resolver, ident[t]))
       THEN Finish(t, ident[t], Raised("ResolverException", 404))
       ELSE /\ pc' = [pc EXCEPT ![t] = "makedirs"]
            /\ UNCHANGED <<fd, ret, resolved, failed>>
    /\ UNCHANGED <<resolver, fs, ident, warm, wrote, fetches, calls>>

\* line 202: makedirs(dirname(local_fp)), whose OSError leaves resolve()
MakeDirs(t) ==
    /\ pc[t] = "makedirs"
    /\ resolver = "SourceImageCachingResolver"
    /\ LET m == makedirs(fs, dirname(local_fp(resolver, ident[t])))
       IN  /\ fs' = m.fs
           /\ wrote' = [wrote EXCEPT ![t] = (m.fs # fs)]
           /\ IF m.ok
              THEN /\ pc' = [pc EXCEPT ![t] = "copy"]
                   /\ UNCHANGED <<fd, ret, resolved, failed>>
              ELSE Finish(t, ident[t], Raised("OSError", 0))
    /\ UNCHANGED <<resolver, ident, warm, fetches, calls>>

\* line 203, copy(fp, local_fp) up to its two open() calls: a directory as
\* destination takes the source's basename, the same file is refused, then
\* the source is opened for reading and the destination created or truncated
Copy(t) ==
    /\ pc[t] = "copy"
    /\ Invoke(ident[t])
    /\ LET src == source_fp(resolver, ident[t])
           lfp == local_fp(resolver, ident[t])
           dst == IF isdir(fs, lfp) THEN join(lfp, basename(src)) ELSE lfp
           same == exists(fs, src) /\ exists(fs, dst) /\ Walk(fs, src).at = Walk(fs, dst).at
           r == OpenRead(fs, src)
           w == OpenWrite(fs, dst)
       IN  IF same THEN /\ Finish(t, ident[t], Raised("Error", 0))
                        /\ UNCHANGED <<fs, wrote>>
           ELSE IF ~r.ok \/ ~w.ok
           THEN /\ Finish(t, ident[t], Raised("IOError", 0))
                /\ UNCHANGED <<fs, wrote>>
           ELSE /\ fs' = w.fs
                /\ wrote' = [wrote EXCEPT ![t] = TRUE]
                /\ pc' = [pc EXCEPT ![t] = "copying"]
                /\ fd' = [fd EXCEPT ![t] = [src |-> "file", from |-> r.at, to |-> w.at, off |-> 0]]
                /\ UNCHANGED <<ret, resolved, failed>>
    /\ UNCHANGED <<resolver, ident, warm, calls>>

\* the stream a descriptor reads
Stream(f, d) ==
    CASE d.src = "file" -> f[d.from].data
      [] d.src = "object" -> Content
      [] OTHER -> ErrorBody

\* the loop of a move: at end of file the source file is removed
CopyChunk_move(t) ==
    /\ pc[t] = "copying"
    /\ LET data == Stream(fs, fd[t])
           off == fd[t].off
       IN  IF off >= Len(data)
           THEN /\ Finish(t, ident[t],
                          Returned(local_fp(resolver, ident[t]),
                                   SourceImageCaching_format_from_ident(unquote(ident[t]))))
                /\ fs' = [p \in DOMAIN fs \ {fd[t].from} |-> fs[p]]
           ELSE /\ fs' = [fs EXCEPT ![fd[t].to].data = WriteAt(@, off, data[off + 1])]
                /\ fd' = [fd EXCEPT ![t].off = off + 1]
                /\ UNCHANGED <<pc, ret, resolved, failed>>
    /\ UNCHANGED <<resolver, ident, warm, wrote, fetches, calls>>

\* copyfileobj's loop, one buffer a step; at end of file copy() returns and
\* resolve() returns (local_fp, format), lines 204-209
CopyChunk(t) ==
    /\ pc[t] = "copying"
    /\ LET data == Stream(fs, fd[t])
           off == fd[t].off
       IN  IF off >= Len(data)
           THEN /\ Finish(t, ident[t],
                          Returned(local_fp(resolver, ident[t]),
                                   SourceImageCaching_format_from_ident(unquote(ident[t]))))
                /\ UNCHANGED fs
           ELSE /\ fs' = [fs EXCEPT ![fd[t].to].data = WriteAt(@, off, data[off + 1])]
                /\ fd' = [fd EXCEPT ![t].off = off + 1]
                /\ UNCHANGED <<pc, ret, resolved, failed>>
    /\ UNCHANGED <<resolver, ident, warm, wrote, fetches, calls>>

\* --------------------------------------------- WebBPLResolver.resolve
\* lines 118-127: the cache lookup
WebBPLResolve(t, i) ==
    /\ resolver = "WebBPLResolver"
    /\ Begin(t, i)
    /\ IF CacheHit(fs, resolver, i)
       THEN Finish(t, i, Returned(local_fp(resolver, i),
                                  WebBPL_format_from_ident(unquote(i))))
       ELSE /\ pc' = [pc EXCEPT ![t] = "makedirs"]
            /\ ret' = [ret EXCEPT ![t] = Running]
            /\ UNCHANGED <<fd, resolved, failed>>
    /\ wrote' = [wrote EXCEPT ![t] = FALSE]
    /\ UNCHANGED <<resolver, fs, fetches>>

\* lines 144-147: try: makedirs(dirname(local_fp)) except: (logged, dropped)
TryMakeDirs(t) ==
    /\ pc[t] = "makedirs"
    /\ resolver = "WebBPLResolver"
    /\ LET m == makedirs(fs, dirname(local_fp(resolver, ident[t])))
       IN  /\ fs' = m.fs
           /\ wrote' = [wrote EXCEPT ![t] = (m.fs # fs)]
    /\ pc' = [pc EXCEPT ![t] = "retrieve"]
    /\ UNCHANGED <<resolver, ident, fd, ret, warm, fetches, resolved, failed, calls>>

\* line 150, urlretrieve(fp, local_fp) up to its open(filename, 'wb'): opening
\* the address fails with IOError (no such object, no connection), or it
\* yields the object, or the repository's error body for an object it does
\* not hold; then the destination is created or truncated
UrlRetrieve(t) ==
    /\ pc[t] = "retrieve"
    /\ Invoke(ident[t])
    /\ \/ /\ Finish(t, ident[t], Raised("IOError", 0))
          /\ UNCHANGED <<fs, wrote>>
       \/ LET w == OpenWrite(fs, local_fp(resolver, ident[t]))
              body == IF unquote(ident[t]) \in Repository THEN "object" ELSE "error"
          IN  IF ~w.ok
              THEN /\ Finish(t, ident[t], Raised("IOError", 0))
                   /\ UNCHANGED <<fs, wrote>>
              ELSE /\ fs' = w.fs
                   /\ wrote' = [wrote EXCEPT ![t] = TRUE]
                   /\ pc' = [pc EXCEPT ![t] = "retrieving"]
                   /\ fd' = [fd EXCEPT ![t] = [src |-> body, from |-> << >>, to |-> w.at, off |-> 0]]
                   /\ UNCHANGED <<ret, resolved, failed>>
    /\ UNCHANGED <<resolver, ident, warm, calls>>

\* urlretrieve's loop, one block a step: the read fails (IOError), or it is at
\* the end and resolve() returns (local_fp, format), lines 153-158, or the
\* block is written
UrlBlock(t) ==
    /\ pc[t] = "retrieving"
    /\ LET data == Stream(fs, fd[t])
           off == fd[t].off
       IN  \/ /\ off < Len(data)
              /\ Finish(t, ident[t], Raised("IOError", 0))
              /\ UNCHANGED fs
           \/ /\ off >= Len(data)
              /\ Finish(t, ident[t],
                        Returned(local_fp(resolver, ident[t]),
                                 WebBPL_format_from_ident(unquote(ident[t]))))
              /\ UNCHANGED fs
           \/ /\ off < Len(data)
              /\ fs' = [fs EXCEPT ![fd[t].to].data = WriteAt(@, off, data[off + 1])]
              /\ fd' = [fd EXCEPT ![t].off = off + 1]
              /\ UNCHANGED <<pc, ret, resolved, failed>>
    /\ UNCHANGED <<resolver, ident, warm, wrote, fetches, calls>>

\* ------------------------------------------------------ specification
Next ==
    \E t \in Threads :
        \/ \E i \in Idents : IsResolvable(t, i)
        \/ \E i \in Idents : SimpleFSResolve(t, i)
        \/ \E i \in Idents : SourceImageCachingResolve(t, i)
        \/ ProbeSource(t)
        \/ MakeDirs(t)
        \/ Copy(t)
        \/ CopyChunk(t)
        \/ \E i \in Idents : WebBPLResolve(t, i)
        \/ TryMakeDirs(t)
        \/ UrlRetrieve(t)
        \/ UrlBlock(t)

Spec == Init /\ [][Next]_vars

\* ============================================================ claims
Caching == resolver \in {"WebBPLResolver", "SourceImageCachingResolver"}

\* the origin of canonical identifier c exists
OriginExists(c) ==
    IF resolver = "WebBPLResolver" THEN c \in Repository
    ELSE exists(InitFs, join(SourceDir, c))

\* the location of path string p lies under the directory of path string root
Under(f, root, p) ==
    LET r == Walk(f, root).at
        w == Walk(f, p)
    IN  w.ok /\ Len(w.at) >= Len(r) /\ Upto(w.at, Len(r)) = r

\* the entry at normalised path p lies under cache_root
InCache(p) ==
    LET r == Walk(InitFs, CacheDir).at
    IN  Len(p) >= Len(r) /\ Upto(p, Len(r)) = r

\* C1: single fetch under contention.  For an identifier whose origin exists
\* and for which no resolve() has failed, the Fetcher (copy / urlretrieve) has
\* been invoked at most once, however many workers resolve it concurrently.
SingleFetch ==
    Caching =>
        \A c \in Canonical : OriginExists(c) /\ c \notin failed => fetches[c] <= 1

\* C2: no torn reads.  In every state the final cache path of every
\* identifier either does not exist or holds a complete body.
NoTornRead ==
    Caching =>
        \A i \in Idents :
            LET w == Walk(fs, local_fp(resolver, i))
            IN  w.ok /\ fs[w.at].kind = "file"
                    => fs[w.at].data \in {Content, ErrorBody}

\* C3: cache-hit correctness.  A call on a Caching Resolver that begins after
\* a resolve() of the same identifier has succeeded ends in its first step:
\* is_resolvable() answers true, resolve() returns without reaching the
\* origin probe, the directory creation or the Fetcher.
CacheHitCorrect ==
    Caching =>
        \A t \in Threads :
            warm[t] # None =>
                /\ pc[t] = "idle"
                /\ ret[t].status = "ok"
                /\ ret[t].op = "is_resolvable" => ret[t].value

\* C3 witness: after a resolve() that copied the source into the cache, an
\* is_resolvable() of the same identifier has been answered
CacheHitReached ==
    /\ resolver = "SourceImageCachingResolver"
    /\ \E t \in Threads :
        /\ warm[t] # None /\ ret[t].op = "is_resolvable" /\ ret[t].value
        /\ fetches[unquote(ident[t])] = 1

\* C4: idempotence.  In every variant, a resolve() that begins after a
\* resolve() of the same identifier has succeeded returns the identical
\* (path, format) and changes nothing in the filesystem.
Idempotent ==
    \A t \in Threads :
        ret[t].op = "resolve" /\ warm[t] # None =>
            /\ ret[t] = warm[t]
            /\ ~wrote[t]

\* C4 witness: a second resolve() of an identifier the repository resolver
\* fetched once has returned
IdempotentReached ==
    \E t \in Threads :
        /\ resolver = "WebBPLResolver"
        /\ ret[t].op = "resolve" /\ ret[t].status = "ok"
        /\ warm[t] = ret[t]
        /\ fetches[unquote(ident[t])] = 1

\* an identifier that contains ../ or is an absolute path
Escapes(id) ==
    \/ id # Empty /\ id[1] = SLASH
    \/ \E k \in 1..(Len(id) - 2) : SubSeq(id, k, k + 2) = <<DOT, DOT, SLASH>>

\* C5: path traversal rejection.  A call with an escaping identifier raises
\* InvalidIdentifier in its first step: it never stays in resolve() and never
\* ends with an answer or another error.
TraversalRejected ==
    \A t \in Threads :
        ret[t].op # "none" /\ Escapes(unquote(ident[t])) =>
            /\ pc[t] = "idle"
            /\ ret[t].status = "raise"
            /\ ret[t].exc = "InvalidIdentifier"

\* C6: root confinement.  Every path a Caching Resolver has returned lies
\* under cache_root, and so does every entry it has created.
RootConfined ==
    Caching =>
        /\ \A t \in Threads :
               ret[t].op = "resolve" /\ ret[t].status = "ok"
                   => Under(fs, CacheDir, ret[t].path)
        /\ \A p \in DOMAIN fs \ DOMAIN InitFs : InCache(p)

\* C7: fetch failure handling.  When resolve() on a Caching Resolver leaves
\* with an error other than the directory creation's, the error is the 404
\* ResolverException and at that moment nothing exists at the cache path.
FetchFailureClean ==
    [][ Caching =>
          \A t \in Threads :
              pc[t] # "idle" /\ pc'[t] = "idle" /\ ret'[t].status = "raise"
                /\ ret'[t].exc # "OSError"
              => /\ ret'[t].exc = "ResolverException"
                 /\ ret'[t].code = 404
                 /\ ~exists(fs', local_fp(resolver, ident[t])) ]_vars

\* C8: cache entry stability.  A file visible under cache_root is never
\* changed or removed by any step.
CacheEntryStable ==
    [][ Caching =>
          \A p \in DOMAIN fs :
              InCache(p) /\ fs[p].kind = "file"
                  => p \in DOMAIN fs' /\ fs'[p] = fs[p] ]_vars

\* C9: format inference.  A resolve() of an identifier with a '.' that
\* returns gives the text after the last '.'; without a '.', WebBPLResolver
\* gives jp2 and the plain-filesystem resolvers do not return a format.
FormatInferred ==
    \A t \in Threads :
        LET id == unquote(ident[t])
        IN  ret[t].op = "resolve" /\ ret[t].status = "ok" =>
                IF Find(id, DOT) # 0
                THEN ret[t].format = From(id, RFind(id, DOT))
                ELSE /\ resolver = "WebBPLResolver"
                     /\ ret[t].format = <<"j", "p", "2">>

\* C10: Direct Resolver.  resolve() raises ResolverException(404) exactly
\* when nothing exists at join(source root, canonical identifier), and
\* otherwise returns that path, with the text after the last '.' as format
\* for an identifier that has a '.'.
DirectNotFound ==
    resolver = "SimpleFSResolver" =>
        \A t \in Threads :
            LET id == unquote(ident[t])
                fp == join(SourceDir, id)
            IN  ret[t].op = "resolve" =>
                    IF Walk(fs, fp).ok
                    THEN /\ ret[t].status = "ok"
                         /\ ret[t].path = fp
                         /\ Find(id, DOT) # 0 => ret[t].format = From(id, RFind(id, DOT))
                    ELSE /\ ret[t].status = "raise"
                         /\ ret[t].exc = "ResolverException"
                         /\ ret[t].code = 404

\* C10 witness: one resolve() has raised 404 and another has returned
DirectBothReached ==
    /\ resolver = "SimpleFSResolver"
    /\ \E t, u \in Threads :
        /\ ret[t].op = "resolve" /\ ret[t].status = "raise" /\ ret[t].code = 404
        /\ ret[u].op = "resolve" /\ ret[u].status = "ok"
        /\ Find(unquote(ident[u]), DOT) # 0

\* C11: the Direct Resolver is read-only.  Under SimpleFSResolver the
\* filesystem is in every state the tree it started with, and no call has
\* changed it, whatever the calls and however they interleave.
DirectReadOnly ==
    resolver = "SimpleFSResolver" =>
        /\ fs = InitFs
        /\ \A t \in Threads : ~wrote[t] /\ pc[t] = "idle"
        /\ \A c \in Canonical : fetches[c] = 0

\* C11 witness: a failing resolve() and an is_resolvable() have both run
DirectReadOnlyReached ==
    /\ resolver = "SimpleFSResolver"
    /\ \E t, u \in Threads :
        /\ ret[t].op = "resolve" /\ ret[t].status = "raise"
        /\ ret[u].op = "is_resolvable"

\* the workers inside the population of canonical identifier c: past the
\* cache miss and not yet returned, which is where the resolution lock of c
\* is held
LockHolders(c) == {t \in Threads : pc[t] # "idle" /\ unquote(ident[t]) = c}

AloneOk(i) ==
    LET lfp == join(CacheDir, unquote(i))
        src == join(SourceDir, unquote(i))
        m == makedirs(InitFs, dirname(lfp))
    IN  \/ exists(InitFs, lfp)
        \/ /\ exists(InitFs, src)
           /\ m.ok
           /\ OpenRead(m.fs, src).ok
           /\ OpenWrite(m.fs, lfp).ok

\* C13: independence of distinct identifiers.  A resolve(j) that would
\* return when run alone does not fail while every other worker's call, in
\* progress or completed, is for a different canonical identifier.
Independent ==
    resolver = "SourceImageCachingResolver" =>
        \A t \in Threads :
            /\ ret[t].op = "resolve" /\ ret[t].status = "raise"
            /\ AloneOk(ident[t])
            => \E u \in Threads \ {t} : unquote(ident[u]) = unquote(ident[t])

\* the entry of canonical identifier c in the cache tree: the components of
\* c below the cache root
CacheEntry(c) == Walk(InitFs, CacheDir).at \o Components(c)

NoEscape(c) ==
    \A k \in 1..(Len(c) - 2) : ~(c[k] = PCT /\ HexToChr(c[k + 1], c[k + 2]) # "")

\* C15 as claimed: canonicalization is idempotent.  For the identifier of
\* every call, decoding its canonical form again gives the canonical form,
\* and the identifier and its canonical form address the same cache path.
CanonIdempotent ==
    \A t \in Threads :
        ret[t].op # "none" =>
            LET c == unquote(ident[t])
            IN  /\ unquote(c) = c
                /\ local_fp(resolver, c) = local_fp(resolver, ident[t])

\* C15 as amended: the same, for the identifiers whose canonical form holds
\* no percent escape.
CanonFixpoint ==
    \A t \in Threads :
        ret[t].op # "none" =>
            LET c == unquote(ident[t])
            IN  NoEscape(c) =>
                    /\ unquote(c) = c
                    /\ local_fp(resolver, c) = local_fp(resolver, ident[t])

\* C15 witness: a resolve() of a percent-encoded identifier, whose canonical
\* form holds no escape, has returned
CanonFixpointReached ==
    \E t \in Threads :
        /\ ret[t].op = "resolve" /\ ret[t].status = "ok"
        /\ unquote(ident[t]) # ident[t]
        /\ NoEscape(unquote(ident[t]))

\* C16: on a cache miss, a parent directory of the cache path that exists
\* already counts as created and the call goes on to fetch; any other failure
\* of the directory creation ends the call before a fetch.
MakeDirsTolerant ==
    [][ \A t \in Threads :
          LET parent == dirname(local_fp(resolver, ident[t]))
          IN  /\ (MakeDirs(t) /\ isdir(fs, parent)) => pc'[t] = "copy"
              /\ (TryMakeDirs(t) /\ isdir(fs, parent)) => pc'[t] = "retrieve"
              /\ ((MakeDirs(t) \/ TryMakeDirs(t))
                     /\ ~makedirs(fs, parent).ok /\ ~isdir(fs, parent))
                  => (pc'[t] = "idle" /\ ret'[t].status = "raise") ]_vars

\* C17: on a caching resolver every path a successful resolve() returned
\* is a regular file, never a directory.
RegularFileHit ==
    Caching =>
        \A t \in Threads :
            (ret[t].op = "resolve" /\ ret[t].status = "ok") =>
                /\ Walk(fs, ret[t].path).ok
                /\ fs[Walk(fs, ret[t].path).at].kind = "file"

\* C18: a resolve() of SourceImageCachingResolver that raised the 404 for a
\* missing source file made no directory and no file: the call wrote nothing,
\* and its source path does not exist.
MissingSourceClean ==
    resolver = "SourceImageCachingResolver" =>
        \A t \in Threads :
            (ret[t].op = "resolve" /\ ret[t].exc = "ResolverException") =>
                /\ ret[t].code = 404
                /\ ~wrote[t]
                /\ ~exists(fs, source_fp(resolver, ident[t]))

\* C18 witness: the 404 was raised for an identifier with a directory
\* component, and that directory is not in the cache
MissingSourceReached ==
    /\ resolver = "SourceImageCachingResolver"
    /\ \E t \in Threads :
          /\ ret[t].op = "resolve" /\ ret[t].exc = "ResolverException"
          /\ Find(unquote(ident[t]), SLASH) > 0
          /\ ~exists(fs, dirname(local_fp(resolver, ident[t])))

\* C19: is_resolvable() predicts resolve().  In a state where
\* is_resolvable(i) is true, resolve(i) of any of the three classes returns
\* at once the path is_resolvable() tested, fetches nothing and writes
\* nothing; in a state where it is false, SimpleFSResolver.resolve(i) raises
\* the 404.
PredictsResolve ==
    [][ \A t \in Threads, i \in Idents :
          (SimpleFSResolve(t, i) \/ SourceImageCachingResolve(t, i) \/ WebBPLResolve(t, i)) =>
              /\ is_resolvable(fs, resolver, i) =>
                    /\ pc'[t] = "idle"
                    /\ ret'[t].op = "resolve" /\ ret'[t].status = "ok"
                    /\ ret'[t].path = join(cache_root(resolver), unquote(i))
                    /\ fs' = fs /\ fetches' = fetches /\ ~wrote'[t]
              /\ (resolver = "SimpleFSResolver" /\ ~is_resolvable(fs, resolver, i)) =>
                    /\ pc'[t] = "idle"
                    /\ ret'[t].status = "raise" /\ ret'[t].code = 404 ]_vars

\* C19 witness: on a caching resolver, is_resolvable() answered true for an
\* identifier and resolve() of the same identifier returned without writing
PredictsResolveReached ==
    /\ Caching
    /\ \E t, u \in Threads :
          /\ ret[t].op = "is_resolvable" /\ ret[t].value
          /\ ret[u].op = "resolve" /\ ret[u].status = "ok" /\ ~wrote[u]
          /\ ident[u] = ident[t]
          /\ ret[u].path = join(cache_root(resolver), unquote(ident[t]))

\* the step is one of worker t's: its position, descriptor, result or
\* identifier changes
Acts(t) ==
    pc'[t] # pc[t] \/ fd'[t] # fd[t] \/ ret'[t] # ret[t] \/ ident'[t] # ident[t]

\* C20: the origin is never modified.  A step of a call whose identifier
\* stays inside the root leaves every entry outside cache_root as it was,
\* removes no entry and changes the kind of none, and every entry it creates
\* lies under cache_root; a step that moves no worker (a call repeated with
\* the same outcome) leaves the filesystem as it was.
OriginUntouched ==
    [][ fs' # fs =>
          /\ \E t \in Threads : Acts(t)
          /\ \A t \in Threads :
                (Acts(t) /\ ~Escapes(unquote(ident'[t]))) =>
                    /\ \A p \in DOMAIN fs :
                          /\ p \in DOMAIN fs' /\ fs'[p].kind = fs[p].kind
                          /\ ~InCache(p) => fs'[p] = fs[p]
                    /\ \A p \in DOMAIN fs' \ DOMAIN fs : InCache(p) ]_vars

\* C20 witness: SourceImageCachingResolver copied a source file of an
\* identifier inside the root into the cache and returned
OriginUntouchedReached ==
    /\ resolver = "SourceImageCachingResolver"
    /\ \E t \in Threads :
          /\ ret[t].op = "resolve" /\ ret[t].status = "ok" /\ wrote[t]
          /\ ~Escapes(unquote(ident[t]))
          /\ fetches[unquote(ident[t])] > 0
          /\ DOMAIN fs # DOMAIN InitFs

====
